---- MODULE Spec2Model ----
(***************************************************************************)
(* A model of stitcher: the two command line front ends (src/main.rs and   *)
(* src/bin/stitcher.rs) and the library's stitch / stitch_images.          *)
(*                                                                         *)
(* One invocation of the program is one behaviour.  The command line is    *)
(* fixed by Init; the contents of the files on disk are revealed when the  *)
(* program opens them (a file that is never opened never matters).         *)
(*                                                                         *)
(* A u32 is kept at its real width as two 16-bit limbs <<hi, lo>>, so that *)
(* width * 2 wraps exactly where the program's multiplication wraps.       *)
(* A path is a sequence of string tokens; format!("{}-tl.png", using) is   *)
(* the concatenation of the prefix with the token "-tl.png".               *)
(* A pixel of a decoded file is the tag <<path, x, y>>: two pixels are     *)
(* equal only when they are the same pixel of the same file.               *)
(***************************************************************************)
EXTENDS Integers, Sequences, FiniteSets, TLC

VARIABLES
    cmd,      \* the command line: binary, --using form, the five options
    pc,       \* position of the process
    args,     \* <<tl, tr, bl, br, out>> of the stitch_images call, <<>> before
    imgs,     \* img_tl, img_tr, img_bl, img_br decoded so far (locals)
    dim,      \* <<width, height>> taken from img_tl (local), <<>> before
    canvas,   \* img, the ImageBuffer being composed (local)
    fs,       \* path -> content of the input files opened so far
    opened,   \* the paths handed to image::open, in order
    written,  \* path -> state of the files handed to File::create
    result,   \* what run returned
    stdout,   \* the lines main printed
    exit      \* exit status of the process, -1 while it runs

vars == <<cmd, pc, args, imgs, dim, canvas, fs, opened, written, result, stdout, exit>>

\* Largest small width or height of an input image.
MaxDim == 2

----------------------------------------------------------------------------
(* u32 arithmetic *)

Limb == 2^16

U32(n) == <<n \div Limb, n % Limb>>

\* 2^31, the smallest u32 whose double does not fit in a u32.
Big == <<Limb \div 2, 0>>

\* The value of a u32 below 2^31 as a number.
ToNat(v) == v[1] * Limb + v[2]

\* a <= b on u32
LessEq(a, b) == \/ a[1] < b[1]
                \/ a[1] = b[1] /\ a[2] <= b[2]

\* width * 2 in release builds: the product modulo 2^32
WrappingMul2(v) ==
    LET lo == 2 * v[2]
        hi == 2 * v[1] + (lo \div Limb)
    IN  <<hi % Limb, lo % Limb>>

\* width * 2 does not fit in a u32 (debug builds panic here)
Mul2Overflows(v) == 2 * v[1] + ((2 * v[2]) \div Limb) >= Limb

\* x + n <= bound as mathematical integers (no wrap)
Fits(x, n, bound) ==
    LET lo == x[2] + n[2]
        hi == x[1] + n[1] + (lo \div Limb)
    IN  hi < Limb /\ LessEq(<<hi, lo % Limb>>, bound)

Dims == {U32(n) : n \in 1..MaxDim} \cup {Big}

----------------------------------------------------------------------------
(* Option, Result, paths *)

None == [some |-> FALSE]
Some(v) == [some |-> TRUE, v |-> v]

Ok == [ok |-> TRUE]
Err(kind, cause) == [ok |-> FALSE, err |-> kind, cause |-> cause]
NoResult == [ok |-> FALSE, err |-> "none", cause |-> <<>>]

NoPath == <<>>

\* #[fail(display = ...)] of StitcherError
Display(e) ==
    CASE e.err = "Io" -> "an io error occurred"
      [] e.err = "ImageError" -> "an image error occurred"
      [] e.err = "CommandLineParsingError" -> "Command line parsing"
      [] e.err = "SizeMismatch" -> "Image size mismatch"

----------------------------------------------------------------------------
(* The command line and clap *)

Binaries == {"main", "stitcher"}

Corners == <<"top-left", "top-right", "bottom-left", "bottom-right">>

OptionNames == {Corners[i] : i \in 1..4} \cup {"output"}

\* The file each explicit option names when it is given.
Explicit(name) ==
    CASE name = "top-left" -> <<"a.png">>
      [] name = "top-right" -> <<"b.png">>
      [] name = "bottom-left" -> <<"c.png">>
      [] name = "bottom-right" -> <<"d.png">>
      [] name = "output" -> <<"o.png">>

Prefix == <<"foo">>

\* --using is absent, given bare, or given with a value.
UsingForms == {"absent", "flag", "value"}

\* The explicit options that accompany `--using foo` in the modelled command
\* lines: at most one of them, or at least four of the five.
UsingWith == {g \in SUBSET OptionNames : Cardinality(g) <= 1 \/ Cardinality(g) >= 4}

CommandLines ==
    {c \in [bin : Binaries, using : UsingForms, given : SUBSET OptionNames] :
        c.using = "value" => c.given \in UsingWith}

\* Arg::with_name("using") ... .takes_value(true) is set in src/main.rs only.
UsingTakesValue(bin) == bin = "main"

\* get_matches exits the process on a command line the App rejects: a value
\* after an option that takes none, or none after an option that takes one.
ClapRejects(c) ==
    \/ c.using = "value" /\ ~UsingTakesValue(c.bin)
    \/ c.using = "flag" /\ UsingTakesValue(c.bin)

\* matches.value_of(name)
value_of(c, name) ==
    IF name = "using"
    THEN IF c.using = "value" /\ UsingTakesValue(c.bin) THEN Some(Prefix) ELSE None
    ELSE IF name \in c.given THEN Some(Explicit(name)) ELSE None

----------------------------------------------------------------------------
(* stitch and the dispatch of run *)

Call(tl, tr, bl, br, out) == [call |-> TRUE, args |-> <<tl, tr, bl, br, out>>]
Return(r) == [call |-> FALSE, r |-> r]

\* stitch(using): the five conventional file names, then stitch_images
stitch(using) ==
    Call(using \o <<"-tl.png">>, using \o <<"-tr.png">>, using \o <<"-bl.png">>,
         using \o <<"-br.png">>, using \o <<"-out.png">>)

\* A plausible slip: the explicit options looked at before --using.
run_explicit_first(c) ==
    LET using == value_of(c, "using")
        tl == value_of(c, "top-left")
        tr == value_of(c, "top-right")
        bl == value_of(c, "bottom-left")
        br == value_of(c, "bottom-right")
        out == value_of(c, "output")
    IN  IF tl.some /\ tr.some /\ bl.some /\ br.some /\ out.some
        THEN Call(tl.v, tr.v, bl.v, br.v, out.v)
        ELSE IF using.some THEN stitch(using.v)
        ELSE IF tr.some \/ bl.some \/ br.some \/ out.some
             THEN Return(Err("CommandLineParsingError", NoPath))
        ELSE Return(Ok)

\* The body of run after get_matches: what it calls or returns.
run(c) ==
    LET using == value_of(c, "using")
        tl == value_of(c, "top-left")
        tr == value_of(c, "top-right")
        bl == value_of(c, "bottom-left")
        br == value_of(c, "bottom-right")
        out == value_of(c, "output")
    IN  IF using.some THEN stitch(using.v)
        ELSE IF tl.some /\ tr.some /\ bl.some /\ br.some /\ out.some
             THEN Call(tl.v, tr.v, bl.v, br.v, out.v)
        ELSE IF tr.some \/ bl.some \/ br.some \/ out.some
             THEN Return(Err("CommandLineParsingError", NoPath))
        ELSE Return(Ok)

----------------------------------------------------------------------------
(* Images *)

\* What image::open finds at a path: no decodable image, or one of some size.
Undecodable == [image |-> FALSE]
Decoded(w, h) == [image |-> TRUE, w |-> w, h |-> h]
Contents == {Undecodable} \cup {Decoded(w, h) : w \in Dims, h \in Dims}

\* A DynamicImage: where it was decoded from and its dimensions.
Image(path, c) == [src |-> path, w |-> c.w, h |-> c.h]

\* img.get_pixel(x, y)
get_pixel(img, x, y) == <<img.src, x, y>>

\* The pixel ImageBuffer::new fills the buffer with.
ZeroPixel == <<NoPath, 0, 0>>

Cells(w, h) == (0..(ToNat(w) - 1)) \X (0..(ToNat(h) - 1))

NoCanvas == [alloc |-> FALSE, w |-> U32(0), h |-> U32(0), px |-> <<>>, n |-> <<>>]

\* ImageBuffer::new(w, h); n counts the writes to each pixel.
ImageBuffer(w, h) ==
    [alloc |-> TRUE, w |-> w, h |-> h,
     px |-> [c \in Cells(w, h) |-> ZeroPixel],
     n |-> [c \in Cells(w, h) |-> 0]]

\* A plausible slip: && in place of ||.
check_size_and(img, expected_width, expected_height) ==
    img.w # expected_width /\ img.h # expected_height

\* check_size(img, expected_width, expected_height) returns Err(SizeMismatch)
check_size(img, expected_width, expected_height) ==
    img.w # expected_width \/ img.h # expected_height

\* A plausible slip: the offsets of top-right and bottom-left exchanged.
Offset_swapped(slot, width, height) ==
    CASE slot = 1 -> <<U32(0), U32(0)>>
      [] slot = 2 -> <<U32(0), height>>
      [] slot = 3 -> <<width, U32(0)>>
      [] slot = 4 -> <<width, height>>

\* The offset of each cell in the canvas, as stitch_images passes it to copy_into.
Offset(slot, width, height) ==
    CASE slot = 1 -> <<U32(0), U32(0)>>
      [] slot = 2 -> <<width, U32(0)>>
      [] slot = 3 -> <<U32(0), height>>
      [] slot = 4 -> <<width, height>>

\* A plausible slip: the copy stops one column short.
copy_into_short(img, src, x, y, width, height) ==
    IF ~(Fits(x, src.w, img.w) /\ Fits(y, src.h, img.h))
    THEN [panic |-> TRUE, img |-> img]
    ELSE LET x0 == ToNat(x)
             y0 == ToNat(y)
             hit(c) == /\ x0 <= c[1] /\ c[1] < x0 + ToNat(src.w) - 1
                       /\ y0 <= c[2] /\ c[2] < y0 + ToNat(src.h)
         IN  [panic |-> FALSE,
              img |-> [img EXCEPT
                 !.px = [c \in DOMAIN img.px |->
                           IF hit(c) THEN get_pixel(src, c[1] - x0, c[2] - y0)
                           ELSE img.px[c]],
                 !.n = [c \in DOMAIN img.n |->
                           IF hit(c) THEN img.n[c] + 1 ELSE img.n[c]]]]

\* copy_into(img, src, x, y, width, height):
\*   img.sub_image(x, y, width, height).copy_from(src, 0, 0)
\* copy_from copies nothing when src is larger than the sub image (its false
\* is dropped); a pixel written outside the buffer aborts the process.
copy_into(img, src, x, y, width, height) ==
    IF ~(LessEq(src.w, width) /\ LessEq(src.h, height))
    THEN [panic |-> FALSE, img |-> img]
    ELSE IF ~(Fits(x, src.w, img.w) /\ Fits(y, src.h, img.h))
    THEN [panic |-> TRUE, img |-> img]
    ELSE LET x0 == ToNat(x)
             y0 == ToNat(y)
             hit(c) == /\ x0 <= c[1] /\ c[1] < x0 + ToNat(src.w)
                       /\ y0 <= c[2] /\ c[2] < y0 + ToNat(src.h)
         IN  [panic |-> FALSE,
              img |-> [img EXCEPT
                 !.px = [c \in DOMAIN img.px |->
                           IF hit(c) THEN get_pixel(src, c[1] - x0, c[2] - y0)
                           ELSE img.px[c]],
                 !.n = [c \in DOMAIN img.n |->
                           IF hit(c) THEN img.n[c] + 1 ELSE img.n[c]]]]

\* image::ImageRgba8(img).save(fout, image::PNG): the file holds the canvas.
Png(img) == [state |-> "png", w |-> img.w, h |-> img.h, px |-> img.px]
Empty == [state |-> "empty"]
Partial == [state |-> "partial"]

----------------------------------------------------------------------------
(* The process *)

Slots == 1..4

PcOpen == <<"open_tl", "open_tr", "open_bl", "open_br", "check_tr">>
\* A plausible slip: File::create moved ahead of the composition.
PcCheck_create_first == <<"check_tr", "check_tr", "check_bl", "check_br", "create">>

\* PcCheck[slot] is where check_size of the slot runs, PcCheck[slot + 1] what follows.
PcCheck == <<"check_tr", "check_tr", "check_bl", "check_br", "alloc">>
PcCopy == <<"copy_tl", "copy_tr", "copy_bl", "copy_br", "create">>

\* The outcomes of the two build profiles for an overflowing u32 product.
Builds == {"debug", "release"}

\* width * 2, height * 2 as ImageBuffer::new receives them
CanvasSize(width, height) == <<WrappingMul2(width), WrappingMul2(height)>>

\* main: match run() { Ok(_) => (), Err(err) => println!("Error: {}", err) },
\* then main returns.
main(r) ==
    [status |-> 0,
     out |-> IF r.ok THEN <<>> ELSE << <<"Error: ", Display(r)>> >>]

Init ==
    /\ cmd \in CommandLines
    /\ pc = "main"
    /\ args = <<>>
    /\ imgs = <<>>
    /\ dim = <<>>
    /\ canvas = NoCanvas
    /\ fs = <<>>
    /\ opened = <<>>
    /\ written = <<>>
    /\ result = NoResult
    /\ stdout = <<>>
    /\ exit = -1

\* run returns r to main, which reports it and ends the process.
Finish(r) ==
    /\ pc' = "exited"
    /\ result' = r
    /\ stdout' = stdout \o main(r).out
    /\ exit' = main(r).status
    /\ imgs' = <<>>
    /\ dim' = <<>>
    /\ canvas' = NoCanvas

\* A panic unwinds the process.
Panic ==
    /\ pc' = "panicked"
    /\ exit' = 101
    /\ imgs' = <<>>
    /\ dim' = <<>>
    /\ canvas' = NoCanvas
    /\ UNCHANGED <<result, stdout>>

\* main calls run: get_matches, then the dispatch, up to the call of
\* stitch_images or the return to main.
Run ==
    /\ pc = "main"
    /\ IF ClapRejects(cmd)
       THEN /\ pc' = "exited"
            /\ exit' = 1
            /\ UNCHANGED <<args, imgs, dim, canvas, result, stdout>>
       ELSE LET d == run(cmd)
            IN  IF d.call
                THEN /\ args' = d.args
                     /\ pc' = "open_tl"
                     /\ UNCHANGED <<imgs, dim, canvas, result, stdout, exit>>
                ELSE /\ Finish(d.r)
                     /\ UNCHANGED args
    /\ UNCHANGED <<cmd, fs, opened, written>>

\* A plausible slip: the four files opened in the reverse order.
Input_reversed(a, slot) == a[5 - slot]

\* The argument the slot-th image::open of stitch_images reads: tl, tr, bl, br.
Input(a, slot) == a[slot]

\* let img_x = image::open(x)?;
Open(slot) ==
    /\ pc = PcOpen[slot]
    /\ LET path == Input(args, slot)
       IN  /\ opened' = Append(opened, path)
           /\ \E c \in Contents :
                /\ path \in DOMAIN fs => c = fs[path]
                /\ fs' = (path :> c) @@ fs
                /\ IF c.image
                   THEN /\ imgs' = Append(imgs, Image(path, c))
                        /\ pc' = PcOpen[slot + 1]
                        /\ UNCHANGED <<dim, canvas, result, stdout, exit>>
                   ELSE Finish(Err("ImageError", path))
    /\ UNCHANGED <<cmd, args, written>>

OpenTl == Open(1)
OpenTr == Open(2)
OpenBl == Open(3)
OpenBr == Open(4)

\* let (width, height) = img_tl.dimensions(); check_size(&img_x, width, height)?;
Check(slot) ==
    /\ pc = PcCheck[slot]
    /\ LET d == <<imgs[1].w, imgs[1].h>>
       IN  IF check_size(imgs[slot], d[1], d[2])
           THEN Finish(Err("SizeMismatch", NoPath))
           ELSE /\ dim' = d
                /\ pc' = PcCheck[slot + 1]
                /\ UNCHANGED <<imgs, canvas, result, stdout, exit>>
    /\ UNCHANGED <<cmd, args, fs, opened, written>>

CheckTr == Check(2)
CheckBl == Check(3)
CheckBr == Check(4)

\* let mut img = ImageBuffer::new(width * 2, height * 2);
Alloc ==
    /\ pc = "alloc"
    /\ \E build \in Builds :
         IF build = "debug" /\ (Mul2Overflows(dim[1]) \/ Mul2Overflows(dim[2]))
         THEN Panic
         ELSE /\ canvas' = ImageBuffer(CanvasSize(dim[1], dim[2])[1],
                                       CanvasSize(dim[1], dim[2])[2])
              /\ pc' = "copy_tl"
              /\ UNCHANGED <<imgs, dim, result, stdout, exit>>
    /\ UNCHANGED <<cmd, args, fs, opened, written>>

\* copy_into(&mut img, &img_x, x, y, width, height)?;
Copy(slot) ==
    /\ pc = PcCopy[slot]
    /\ LET at == Offset(slot, dim[1], dim[2])
           r == copy_into(canvas, imgs[slot], at[1], at[2], dim[1], dim[2])
       IN  IF r.panic
           THEN Panic
           ELSE /\ canvas' = r.img
                /\ pc' = PcCopy[slot + 1]
                /\ UNCHANGED <<imgs, dim, result, stdout, exit>>
    /\ UNCHANGED <<cmd, args, fs, opened, written>>

CopyTl == Copy(1)
CopyTr == Copy(2)
CopyBl == Copy(3)
CopyBr == Copy(4)

\* let ref mut fout = File::create(out)?;
Create ==
    /\ pc = "create"
    /\ \E ok \in BOOLEAN :
         IF ok
         THEN /\ written' = (args[5] :> Empty) @@ written
              /\ pc' = "save"
              /\ UNCHANGED <<imgs, dim, canvas, result, stdout, exit>>
         ELSE /\ Finish(Err("Io", args[5]))
              /\ UNCHANGED written
    /\ UNCHANGED <<cmd, args, fs, opened>>

\* image::ImageRgba8(img).save(fout, image::PNG)?; Ok(())
Save ==
    /\ pc = "save"
    /\ \E ok \in BOOLEAN :
         IF ok
         THEN /\ written' = [written EXCEPT ![args[5]] = Png(canvas)]
              /\ Finish(Ok)
         ELSE /\ written' = [written EXCEPT ![args[5]] = Partial]
              /\ Finish(Err("ImageError", args[5]))
    /\ UNCHANGED <<cmd, args, fs, opened>>

Next ==
    \/ Run
    \/ OpenTl \/ OpenTr \/ OpenBl \/ OpenBr
    \/ CheckTr \/ CheckBl \/ CheckBr
    \/ Alloc
    \/ CopyTl \/ CopyTr \/ CopyBl \/ CopyBr
    \/ Create
    \/ Save

Spec == Init /\ [][Next]_vars

----------------------------------------------------------------------------
(* Vocabulary of the properties *)

Called == args # <<>>

Terminated == pc \in {"exited", "panicked"}

\* run returned (the process did not end inside get_matches or by a panic)
Returned == pc = "exited" /\ (result.ok \/ result.err # "none")

Failed == Returned /\ ~result.ok

\* The file of a slot has been opened and held an image.
DecodedAt(slot) == /\ Called
                   /\ args[slot] \in DOMAIN fs
                   /\ fs[args[slot]].image

UndecodableAt(slot) == /\ Called
                       /\ args[slot] \in DOMAIN fs
                       /\ ~fs[args[slot]].image

AllDecoded == \A s \in Slots : DecodedAt(s)

DiffersFromTl(slot) ==
    \/ fs[args[slot]].w # fs[args[1]].w
    \/ fs[args[slot]].h # fs[args[1]].h

Mismatch == \E s \in 2..4 : DiffersFromTl(s)

\* The cell size as numbers, once all four files are known to agree and be small.
CellW == ToNat(fs[args[1]].w)
CellH == ToNat(fs[args[1]].h)

\* The source pixel the row-major 2x2 layout puts at canvas position c.
ExpectedPixel(c, w, h) ==
    CASE c[1] < w /\ c[2] < h -> <<args[1], c[1], c[2]>>
      [] c[1] >= w /\ c[2] < h -> <<args[2], c[1] - w, c[2]>>
      [] c[1] < w /\ c[2] >= h -> <<args[3], c[1], c[2] - h>>
      [] c[1] >= w /\ c[2] >= h -> <<args[4], c[1] - w, c[2] - h>>

\* The whole 2w x 2h canvas, as positions.
FullCanvas(w, h) == (0..(2 * w - 1)) \X (0..(2 * h - 1))

Composed == pc \in {"create", "save"}

ConventionArgs ==
    <<Prefix \o <<"-tl.png">>, Prefix \o <<"-tr.png">>, Prefix \o <<"-bl.png">>,
      Prefix \o <<"-br.png">>, Prefix \o <<"-out.png">>>>

UsingValueGiven == cmd.using = "value"

AllFiveGiven == cmd.given = OptionNames

PartialGiven == cmd.given # {} /\ cmd.given # OptionNames

----------------------------------------------------------------------------
(* Claims *)

\* C1: once the four copies are done, every pixel (x, y) of the canvas is the
\* source pixel of the cell it lies in: top-left(x, y), top-right(x - w, y),
\* bottom-left(x, y - h), bottom-right(x - w, y - h); and the file a
\* successful run saves holds exactly those pixels.
C1_Placement ==
    /\ Composed =>
          \A c \in DOMAIN canvas.px : canvas.px[c] = ExpectedPixel(c, CellW, CellH)
    /\ (Returned /\ result.ok /\ Called) =>
          /\ written[args[5]].state = "png"
          /\ \A c \in DOMAIN written[args[5]].px :
                written[args[5]].px[c] = ExpectedPixel(c, CellW, CellH)

\* A saved 4 x 2 composite of four 2 x 1 cells.
C1_Witness ==
    /\ Returned /\ result.ok /\ Called
    /\ fs[args[1]] = Decoded(U32(2), U32(1))
    /\ written[args[5]].px[<<3, 1>>] = <<args[4], 1, 0>>
    /\ written[args[5]].px[<<2, 0>>] = <<args[2], 0, 0>>

\* C2: when all four files decoded and one of top-right, bottom-left,
\* bottom-right differs from top-left in width or height, stitch_images ends
\* with SizeMismatch, never allocates the canvas and never creates the output.
C2_SizeMismatch ==
    (AllDecoded /\ Mismatch) =>
        /\ pc \in {"check_tr", "check_bl", "check_br", "exited"}
        /\ pc = "exited" => result = Err("SizeMismatch", NoPath)
        /\ ~canvas.alloc
        /\ written = <<>>

\* Only bottom-right differs, and only in height.
C2_Witness ==
    /\ pc = "exited"
    /\ AllDecoded
    /\ ~DiffersFromTl(2) /\ ~DiffersFromTl(3)
    /\ fs[args[4]].w = fs[args[1]].w /\ fs[args[4]].h # fs[args[1]].h
    /\ result = Err("SizeMismatch", NoPath)

\* C3: no pixel of the canvas is ever written twice, and once the four copies
\* are done the canvas is the whole 2w x 2h grid with every pixel written once.
C3_WrittenOnce ==
    /\ \A c \in DOMAIN canvas.n : canvas.n[c] <= 1
    /\ Composed =>
          /\ DOMAIN canvas.n = FullCanvas(CellW, CellH)
          /\ \A c \in DOMAIN canvas.n : canvas.n[c] = 1

\* A 2 x 4 canvas of four 1 x 2 cells, complete and about to be saved.
C3_Witness ==
    /\ pc = "save"
    /\ dim = <<U32(1), U32(2)>>
    /\ Cardinality(DOMAIN canvas.n) = 8
    /\ canvas.n[<<1, 3>>] = 1

\* C4 (as stated): without a --using value, every partial specification (at
\* least one but not all five of the options) makes run return
\* CommandLineParsingError.
C4_PartialIsError ==
    (Returned /\ value_of(cmd, "using") = None /\ PartialGiven) =>
        result = Err("CommandLineParsingError", NoPath)

\* C5 (as stated): when run returns an error the process reports it and ends
\* with a non-zero status; status zero is reached only when run returned Ok.
C5_ExitStatus ==
    /\ Failed => (exit # 0 /\ stdout = << <<"Error: ", Display(result)>> >>)
    /\ (pc = "exited" /\ exit = 0) => result.ok

\* C6: the stages fail fast in the order arguments, decode (top-left,
\* top-right, bottom-left, bottom-right), size, encode: the files are opened
\* in that order, an undecodable file ends the run at once with its decode
\* error whatever the sizes seen before it, SizeMismatch is returned only
\* after all four decoded, an encode error only after the sizes agreed, and
\* an argument error before any file is opened.
C6_FailFast ==
    /\ Called => opened = SubSeq(args, 1, Len(opened))
    /\ \A s \in Slots :
          UndecodableAt(s) => /\ pc = "exited"
                              /\ result = Err("ImageError", args[s])
                              /\ Len(opened) = s
                              /\ written = <<>>
    /\ (Returned /\ AllDecoded /\ Mismatch) => result = Err("SizeMismatch", NoPath)
    /\ (Failed /\ result.err = "SizeMismatch") => AllDecoded
    /\ (Failed /\ Called /\ result.cause = args[5]) => (AllDecoded /\ ~Mismatch)
    /\ (Failed /\ result.err = "CommandLineParsingError") =>
          (~Called /\ opened = <<>> /\ written = <<>>)
    /\ (value_of(cmd, "using") = None /\ ~AllFiveGiven) => ~Called

\* An undecodable bottom-right together with a wrongly sized top-right.
C6_Witness ==
    /\ UndecodableAt(4)
    /\ DecodedAt(2) /\ DiffersFromTl(2)
    /\ result = Err("ImageError", args[4])

\* C7 (as stated): the output is created only after decoding, size checks and
\* the four copies; a decode or size error leaves it untouched; and after any
\* failing invocation, an encode failure included, no partial output is left.
C7_NoPartialOutput ==
    /\ written # <<>> => (AllDecoded /\ ~Mismatch /\ pc \in {"save", "exited"})
    /\ pc = "save" => \A c \in DOMAIN canvas.n : canvas.n[c] = 1
    /\ (Failed /\ result.err = "SizeMismatch") => written = <<>>
    /\ (\E s \in Slots : UndecodableAt(s)) => written = <<>>
    /\ Failed => \A p \in DOMAIN written : written[p].state = "png"

\* C7 (amended): the output is created only after decoding, size checks and
\* the four copies; a decode error, a size error, an argument error, an abort
\* or a failing File::create leaves it untouched; an invocation whose save
\* fails after File::create succeeded leaves the created file behind, empty
\* or partly written; a successful one leaves the encoded canvas.
C7_AtomicUntilEncode ==
    /\ written # <<>> => /\ AllDecoded /\ ~Mismatch
                         /\ pc \in {"save", "exited"}
                         /\ DOMAIN written = {args[5]}
    /\ pc = "save" => /\ written[args[5]] = Empty
                      /\ DOMAIN canvas.n = FullCanvas(CellW, CellH)
                      /\ \A c \in DOMAIN canvas.n : canvas.n[c] = 1
    /\ (Failed /\ result.err \in {"SizeMismatch", "CommandLineParsingError", "Io"}) =>
          written = <<>>
    /\ (\E s \in Slots : UndecodableAt(s)) => written = <<>>
    /\ pc = "panicked" => written = <<>>
    /\ (Failed /\ Called /\ result = Err("ImageError", args[5])) =>
          written[args[5]] = Partial
    /\ (Returned /\ result.ok /\ Called) => written[args[5]].state = "png"

\* The save failed after the file was created.
C7_Witness ==
    /\ Failed /\ Called
    /\ result = Err("ImageError", args[5])
    /\ written[args[5]] = Partial

\* C8 (as stated): with `--using P`, in both binaries, the run is
\* stitch_images on P-tl.png, P-tr.png, P-bl.png, P-br.png and P-out.png:
\* those files are read, in that order, and only P-out.png is written.
C8_UsingIsConvention ==
    (UsingValueGiven /\ Terminated) =>
        /\ Called
        /\ args = ConventionArgs
        /\ opened # <<>>
        /\ opened = SubSeq(ConventionArgs, 1, Len(opened))
        /\ DOMAIN written \subseteq {ConventionArgs[5]}

\* c = 2 * v as mathematical integers
IsDouble(c, v) ==
    LET lo == 2 * v[2]
        hi == 2 * v[1] + (lo \div Limb)
    IN  hi < Limb /\ c = <<hi, lo % Limb>>

\* C9 (as stated): for every cell size the canvas is exactly 2w x 2h, the
\* products never wrap or abort, and the offsets w and h lie inside it.
C9_CanvasDoubled ==
    /\ pc # "panicked"
    /\ canvas.alloc => /\ IsDouble(canvas.w, dim[1])
                       /\ IsDouble(canvas.h, dim[2])
                       /\ LessEq(dim[1], canvas.w) /\ dim[1] # canvas.w
                       /\ LessEq(dim[2], canvas.h) /\ dim[2] # canvas.h

\* C10: without a --using value and without all five options nothing is
\* opened and nothing is created, and run returns once the command line is
\* accepted; with a --using value only the conventional files are ever
\* opened or created, whatever explicit options accompany it.
C10_Frame ==
    /\ (~UsingValueGiven /\ ~AllFiveGiven) =>
          /\ ~Called /\ opened = <<>> /\ fs = <<>> /\ written = <<>>
          /\ pc # "panicked"
          /\ (pc = "exited" /\ ~ClapRejects(cmd)) => Returned
    /\ UsingValueGiven =>
          /\ Called => args = ConventionArgs
          /\ \A i \in 1..Len(opened) : \E s \in Slots : opened[i] = ConventionArgs[s]
          /\ DOMAIN written \subseteq {ConventionArgs[5]}
          /\ result.ok \/ result.err # "CommandLineParsingError"

\* `--using foo` with all five explicit options: foo-out.png is what is written.
C10_Witness ==
    /\ UsingValueGiven /\ AllFiveGiven
    /\ Returned /\ result.ok
    /\ opened = SubSeq(ConventionArgs, 1, 4)
    /\ DOMAIN written = {ConventionArgs[5]}

====
